---- MODULE Spec2Model ----
(***************************************************************************)
(* Model of mlir/lib/Target/LLVMIR/Dialect/LLVMIR/LLVMToLLVMIRTranslation  *)
(* .cpp: the lowering of one LLVM-dialect operation at a time into LLVM IR *)
(* instructions, against a shared ModuleTranslation context.               *)
(***************************************************************************)
EXTENDS Integers, Sequences, FiniteSets, TLC

(***************************************************************************)
(* Bounds of the model.                                                    *)
(***************************************************************************)
\* number of operations lowered in one module translation
MaxOps == 2
\* longest operand / case list of a generated operation
MaxLen == 3
\* number of operations lowered when one emitter is run over all its inputs
MaxSingleOps == 1

(***************************************************************************)
(* Optional values are sequences of length 0 (absent) or 1 (present).      *)
(***************************************************************************)
None == <<>>
Some(x) == <<x>>
Has(o) == Len(o) = 1
Get(o) == o[1]

(***************************************************************************)
(* Fixed-width integers.  TLC integers are 32 bit, so an APInt, an int64_t *)
(* and a uint32_t are kept as little-endian sequences of 16-bit limbs.     *)
(***************************************************************************)
LimbBase == 65536
LimbMax == LimbBase - 1

\* limb k (0-based) of the two's complement representation of a small integer
LimbOfNonNeg(m, k) == IF k = 0 THEN m % LimbBase
                      ELSE IF k = 1 THEN m \div LimbBase
                      ELSE 0
LimbOf(v, k) == IF v >= 0 THEN LimbOfNonNeg(v, k)
                ELSE LimbMax - LimbOfNonNeg((-v) - 1, k)

\* llvm::APInt(width, v, /*isSigned=*/true) for width a multiple of 16
APIntOf(width, v) ==
    [width |-> width, limbs |-> [k \in 1..(width \div 16) |-> LimbOf(v, k - 1)]]

\* APInt::isNegative
isNegative(ap) == ap.limbs[Len(ap.limbs)] >= 32768

\* APInt::getSExtValue: the value sign-extended to int64_t (four limbs)
getSExtValue(ap) ==
    [k \in 1..4 |-> IF k <= Len(ap.limbs) THEN ap.limbs[k]
                    ELSE IF isNegative(ap) THEN LimbMax ELSE 0]

\* APInt::getLimitedValue(UINT64_MAX): the value zero-extended to uint64_t
getLimitedValue(ap) ==
    [k \in 1..4 |-> IF k <= Len(ap.limbs) THEN ap.limbs[k] ELSE 0]

\* static_cast<uint32_t>(x) of a 64-bit quantity: the low 32 bits
CastUInt32(x) == <<x[1], x[2]>>

\* llvm::ConstantInt::get(IntegerType(width), uint64_t V): V truncated to width
ConstantIntGetU64(width, x) ==
    [width |-> width, limbs |-> [k \in 1..(width \div 16) |-> x[k]]]

\* llvm::ConstantInt::get(type, int64_t) for a small integer: i1 and i8 keep
\* one limb reduced modulo 2^width, wider types the two's complement limbs
ConstantIntGet(width, v) ==
    IF width < 16
    THEN [width |-> width, limbs |-> <<v % (2 ^ width)>>]
    ELSE APIntOf(width, v)

(***************************************************************************)
(* 4.1 Enum translators.                                                   *)
(***************************************************************************)
ICmpPredicates == {"eq", "ne", "slt", "sle", "sgt", "sge",
                   "ult", "ule", "ugt", "uge"}

FCmpPredicates == {"_false", "oeq", "ogt", "oge", "olt", "ole", "one", "ord",
                   "ueq", "ugt", "uge", "ult", "ule", "une", "uno", "_true"}

AtomicBinOps == {"xchg", "add", "sub", "_and", "nand", "_or", "_xor",
                 "max", "min", "umax", "umin", "fadd", "fsub"}

AtomicOrderings == {"not_atomic", "unordered", "monotonic", "acquire",
                    "release", "acq_rel", "seq_cst"}

getLLVMCmpPredicate(p) ==
    CASE p = "eq"  -> "ICMP_EQ"
      [] p = "ne"  -> "ICMP_NE"
      [] p = "slt" -> "ICMP_SLT"
      [] p = "sle" -> "ICMP_SLE"
      [] p = "sgt" -> "ICMP_SGT"
      [] p = "sge" -> "ICMP_SGE"
      [] p = "ult" -> "ICMP_ULT"
      [] p = "ule" -> "ICMP_ULE"
      [] p = "ugt" -> "ICMP_UGT"
      [] p = "uge" -> "ICMP_UGE"

\* a dropped case falls through to the next one
getLLVMFCmpPredicateFallthrough(p) ==
    CASE p = "_false" -> "FCMP_FALSE"
      [] p = "oeq"    -> "FCMP_OEQ"
      [] p = "ogt"    -> "FCMP_OGT"
      [] p = "oge"    -> "FCMP_OGE"
      [] p = "olt"    -> "FCMP_OLT"
      [] p = "ole"    -> "FCMP_OLE"
      [] p = "one"    -> "FCMP_ONE"
      [] p = "ord"    -> "FCMP_ORD"
      [] p = "ueq"    -> "FCMP_UEQ"
      [] p = "ugt"    -> "FCMP_UGT"
      [] p = "uge"    -> "FCMP_UGE"
      [] p = "ult"    -> "FCMP_ULT"
      [] p = "ule"    -> "FCMP_ULE"
      [] p = "une"    -> "FCMP_UNO"
      [] p = "uno"    -> "FCMP_UNO"
      [] p = "_true"  -> "FCMP_TRUE"

getLLVMFCmpPredicate(p) ==
    CASE p = "_false" -> "FCMP_FALSE"
      [] p = "oeq"    -> "FCMP_OEQ"
      [] p = "ogt"    -> "FCMP_OGT"
      [] p = "oge"    -> "FCMP_OGE"
      [] p = "olt"    -> "FCMP_OLT"
      [] p = "ole"    -> "FCMP_OLE"
      [] p = "one"    -> "FCMP_ONE"
      [] p = "ord"    -> "FCMP_ORD"
      [] p = "ueq"    -> "FCMP_UEQ"
      [] p = "ugt"    -> "FCMP_UGT"
      [] p = "uge"    -> "FCMP_UGE"
      [] p = "ult"    -> "FCMP_ULT"
      [] p = "ule"    -> "FCMP_ULE"
      [] p = "une"    -> "FCMP_UNE"
      [] p = "uno"    -> "FCMP_UNO"
      [] p = "_true"  -> "FCMP_TRUE"

getLLVMAtomicBinOp(op) ==
    CASE op = "xchg" -> "Xchg"
      [] op = "add"  -> "Add"
      [] op = "sub"  -> "Sub"
      [] op = "_and" -> "And"
      [] op = "nand" -> "Nand"
      [] op = "_or"  -> "Or"
      [] op = "_xor" -> "Xor"
      [] op = "max"  -> "Max"
      [] op = "min"  -> "Min"
      [] op = "umax" -> "UMax"
      [] op = "umin" -> "UMin"
      [] op = "fadd" -> "FAdd"
      [] op = "fsub" -> "FSub"

getLLVMAtomicOrdering(ordering) ==
    CASE ordering = "not_atomic" -> "NotAtomic"
      [] ordering = "unordered"  -> "Unordered"
      [] ordering = "monotonic"  -> "Monotonic"
      [] ordering = "acquire"    -> "Acquire"
      [] ordering = "release"    -> "Release"
      [] ordering = "acq_rel"    -> "AcquireRelease"
      [] ordering = "seq_cst"    -> "SequentiallyConsistent"

(***************************************************************************)
(* Fast-math flags: the MLIR bit enum is a set of flag names, the          *)
(* llvm::FastMathFlags value the set of properties its setters switched on.*)
(***************************************************************************)
FastmathFlags == {"nnan", "ninf", "nsz", "arcp", "contract", "afn", "reassoc"}

bitEnumContainsAll(bits, bit) == bit \subseteq bits

\* a copy-and-paste slip in the handler table: nsz calls setNoInfs
handlersSlip ==
    << <<"nnan", "NoNaNs">>,
       <<"ninf", "NoInfs">>,
       <<"nsz", "NoInfs">>,
       <<"arcp", "AllowReciprocal">>,
       <<"contract", "AllowContract">>,
       <<"afn", "ApproxFunc">>,
       <<"reassoc", "AllowReassoc">> >>

handlers ==
    << <<"nnan", "NoNaNs">>,
       <<"ninf", "NoInfs">>,
       <<"nsz", "NoSignedZeros">>,
       <<"arcp", "AllowReciprocal">>,
       <<"contract", "AllowContract">>,
       <<"afn", "ApproxFunc">>,
       <<"reassoc", "AllowReassoc">> >>

RECURSIVE FmfLoop(_, _, _)
FmfLoop(fmfMlir, i, ret) ==
    IF i > Len(handlers) THEN ret
    ELSE FmfLoop(fmfMlir, i + 1,
                 IF bitEnumContainsAll(fmfMlir, {handlers[i][1]})
                 THEN ret \cup {handlers[i][2]}
                 ELSE ret)

getFastmathFlags(fmfMlir) == FmfLoop(fmfMlir, 1, {})

(***************************************************************************)
(* The translation context (ModuleTranslation) and the instruction builder *)
(* are threaded through the emitters as one record st:                     *)
(*   insts          instructions appended to the current block, in order   *)
(*   valueMapping   IR-A value -> LLVM value                               *)
(*   branchMapping  operation id -> index of its instruction               *)
(*   loopOptionsMetadataMapping  attribute -> loop node id                 *)
(*   mdNodes        loop metadata nodes built so far, node id = index      *)
(*   builderFMF     the builder's current fast-math flags                  *)
(*   ran            the emitters that ran for the operation being lowered  *)
(*   mapCalls       the mapLoopOptionsMetadata calls of that operation     *)
(*   declarations   the intrinsic declarations created in the module       *)
(***************************************************************************)

\* IR-A values are identified by their defining operation (0: defined before
\* the lowered operations, e.g. a constant or a function argument) and name.
Value(def, name, ty) == [def |-> def, name |-> name, ty |-> ty]
ResultOf(op) == Value(op.id, "result", op.resultType)

\* LLVM values: constants, arguments and instructions (idx: position in insts)
LLVMValue(kind, name, idx, ty) == [kind |-> kind, name |-> name, idx |-> idx, ty |-> ty]
InstValue(st, ty) == LLVMValue("inst", "", Len(st.insts), ty)
\* isa<llvm::Constant>: constants, globals and functions
isConstant(v) == v.kind \in {"const", "global", "func"}

\* convertType on the types the emitters inspect
convertType(ty) ==
    CASE ty = "i32"                      -> "i32"
      [] ty = "i1"                       -> "i1"
      [] ty = "i64"                      -> "i64"
      [] ty = "!llvm.void"               -> "void"
      [] ty = "!llvm.ptr"                -> "ptr"
      [] ty = "!llvm.func<void ()>"      -> "void ()"
      [] ty = "!llvm.func<i32 ()>"       -> "i32 ()"
      [] ty = "!llvm.func<f32 ()>"       -> "float ()"
      [] ty = "!llvm.ptr<func<void ()>>" -> "ptr"
      [] ty = "!llvm.ptr<func<i32 ()>>"  -> "ptr"
      [] ty = "!llvm.ptr<func<f32 ()>>"  -> "ptr"
      [] ty = "!llvm.struct<(ptr, i32)>" -> "{ ptr, i32 }"

\* LLVMPointerType::getElementType
getElementType(ty) ==
    CASE ty = "!llvm.ptr<func<void ()>>" -> "!llvm.func<void ()>"
      [] ty = "!llvm.ptr<func<i32 ()>>"  -> "!llvm.func<i32 ()>"
      [] ty = "!llvm.ptr<func<f32 ()>>"  -> "!llvm.func<f32 ()>"

\* llvm::FunctionType::getReturnType
getReturnType(fty) ==
    CASE fty = "void ()" -> "void"
      [] fty = "i32 ()"  -> "i32"
      [] fty = "float ()" -> "float"

\* the functions and globals of the module, already lowered by the driver
FunctionTypes == [f_void |-> "void ()", f_i32 |-> "i32 ()", f_f32 |-> "float ()"]
Functions == DOMAIN FunctionTypes
Globals == {"g"}

lookupFunction(name) == LLVMValue("func", name, 0, FunctionTypes[name])
lookupGlobal(name) == LLVMValue("global", name, 0, "ptr")

\* blockMapping, filled by the driver before any operation is lowered
lookupBlock(b) ==
    CASE b = "^bb0" -> "bb0"
      [] b = "^bb1" -> "bb1"
      [] b = "^bb2" -> "bb2"
      [] b = "^bb3" -> "bb3"

lookupValue(st, v) == st.valueMapping[v]
lookupValues(st, vs) == [i \in 1..Len(vs) |-> st.valueMapping[vs[i]]]
mapValue(st, v, llvmValue) == [st EXCEPT !.valueMapping = (v :> llvmValue) @@ @]
mapBranch(st, op, instIdx) == [st EXCEPT !.branchMapping = (op.id :> instIdx) @@ @]

\* DenseMap::lookup: null (0) when the attribute is not a key
lookupLoopOptionsMetadata(st, attr) ==
    IF attr \in DOMAIN st.loopOptionsMetadataMapping THEN st.loopOptionsMetadataMapping[attr] ELSE 0

\* DenseMap::try_emplace: an existing binding is kept
mapLoopOptionsMetadata(st, attr, node) ==
    [st EXCEPT !.loopOptionsMetadataMapping = IF attr \in DOMAIN @ THEN @ ELSE (attr :> node) @@ @,
               !.mapCalls = Append(@, <<attr, node>>)]

\* an instruction; every emitter fills the fields of its opcode
Inst(opc) ==
    [opc |-> opc, ty |-> "void", callee |-> "", args |-> <<>>, succ |-> <<>>,
     cases |-> <<>>, weights |-> None, clauses |-> <<>>, cleanup |-> FALSE,
     pred |-> "", ordering |-> "", fmf |-> {}, loopMD |-> 0, numReserved |-> 0,
     fnPtr |-> None, paramAttrs |-> <<>>, decl |-> None]

\* IRBuilder::Insert: append at the insertion point; floating-point
\* instructions pick up the builder's fast-math flags
Emit(st, inst) == [st EXCEPT !.insts = Append(@, inst)]
EmitFP(st, inst) == [st EXCEPT !.insts = Append(@, [inst EXCEPT !.fmf = st.builderFMF])]
\* IRBuilder::CreateCall: a call is a floating-point operation when it
\* returns a floating-point value
EmitCall(st, inst) == IF inst.ty = "float" THEN EmitFP(st, inst) ELSE Emit(st, inst)

(***************************************************************************)
(* Attributes.  MLIR attributes are uniqued, so the identity of an         *)
(* attribute is its kind and contents; the loop cache is keyed by the      *)
(* attribute record.                                                       *)
(***************************************************************************)
Attr(kind) == [kind |-> kind, str |-> "", ints |-> <<>>, par |-> None, opts |-> None]
StringAttr(s) == [Attr("string") EXCEPT !.str = s]
IntegerAttr(v) == [Attr("integer") EXCEPT !.ints = <<v>>]
UnitAttr == Attr("unit")
ArrayAttr(vs) == [Attr("array") EXCEPT !.ints = vs]
\* the llvm.loop dictionary: an optional parallel access group list and an
\* optional list of <<LoopOptionCase, value>> pairs
LoopDictAttr(par, opts) == [Attr("dictionary") EXCEPT !.par = par, !.opts = opts]

\* LLVMDialect::getLoopAttrName
LoopAttrName == "llvm.loop"

\* the legacy attribute names looked up as cache key, in the order probed
ProbedNames ==
    << "llvm.loop.name", "llvm.loop.vectorize.width",
       "llvm.loop.interleave.count", "llvm.loop.unroll.count",
       "llvm.loop.unroll.withoutcheck", "llvm.loop.vectorize.enable",
       "llvm.loop.distribute.enable", "llvm.loop.flatten.enable",
       "llvm.loop.dataflow.enable", "llvm.loop.pipeline.enable",
       "llvm.loop.latency", "llvm.loop.tripcount" >>

UnitNames == << "llvm.loop.unroll.enable", "llvm.loop.unroll.full",
                "llvm.loop.unroll.disable" >>

LoopAttrNames ==
    {LoopAttrName} \cup {ProbedNames[i] : i \in 1..Len(ProbedNames)}
                   \cup {UnitNames[i] : i \in 1..Len(UnitNames)}

\* Operation::getAttr: the attribute of that name, or null
getAttr(op, name) == op.attrs[name]

\* an operand of a metadata node: a string, constants, access groups, or
\* (operand 0 of a loop node) a reference to a node
MD(name) == [name |-> name, strs |-> <<>>, consts |-> <<>>, refs |-> <<>>, node |-> 0]
MDSelf(id) == [MD("") EXCEPT !.node = id]

\* ConstantInt::getBool(ctx, value): the int64_t converts to bool
getBool(value) == [width |-> 1, limbs |-> <<IF value # 0 THEN 1 ELSE 0>>]

getLoopOptionMetadata(option, value) ==
    CASE option = "disable_licm" ->
           [MD("llvm.licm.disable") EXCEPT !.consts = <<getBool(value)>>]
      [] option = "disable_unroll" ->
           [MD("llvm.loop.unroll.disable") EXCEPT !.consts = <<getBool(value)>>]
      [] option = "interleave_count" ->
           [MD("llvm.loop.interleave.count")
              EXCEPT !.consts = <<ConstantIntGet(32, value)>>]
      [] option = "disable_pipeline" ->
           [MD("llvm.loop.pipeline.disable") EXCEPT !.consts = <<getBool(value)>>]
      [] option = "pipeline_initiation_interval" ->
           [MD("llvm.loop.pipeline.initiationinterval")
              EXCEPT !.consts = <<ConstantIntGet(32, value)>>]

\* the first probed legacy attribute present on the operation, or null
RECURSIVE ProbeAltAttr(_, _)
ProbeAltAttr(op, i) ==
    IF i > Len(ProbedNames) THEN None
    ELSE IF Has(getAttr(op, ProbedNames[i])) THEN getAttr(op, ProbedNames[i])
    ELSE ProbeAltAttr(op, i + 1)

\* ModuleTranslation::getAccessGroup: the metadata of an access group symbol
getAccessGroup(ref) ==
    CASE ref = "@ag1" -> "!ag1"
      [] ref = "@ag2" -> "!ag2"

\* the entries the llvm.loop dictionary contributes
LoopDictOptions(op, attr) ==
    LET loopAttr == Get(attr)
        parallel == IF Has(loopAttr.par)
                    THEN << [MD("llvm.loop.parallel_accesses")
                               EXCEPT !.refs = [i \in 1..Len(Get(loopAttr.par)) |->
                                                  getAccessGroup(Get(loopAttr.par)[i])]] >>
                    ELSE <<>>
        options == IF Has(loopAttr.opts)
                   THEN [i \in 1..Len(Get(loopAttr.opts)) |->
                           getLoopOptionMetadata(Get(loopAttr.opts)[i][1],
                                                 Get(loopAttr.opts)[i][2])]
                   ELSE <<>>
    IN  parallel \o options

\* createIntAttr(type, name)
createIntAttr(op, width, name) ==
    IF Has(getAttr(op, name))
    THEN << [MD(name) EXCEPT
               !.consts = <<ConstantIntGet(width, Get(getAttr(op, name)).ints[1])>>] >>
    ELSE <<>>

\* createUnitAttr(name)
createUnitAttr(op, name) ==
    IF Has(getAttr(op, name)) THEN << MD(name) >> ELSE <<>>

\* an array attribute lowered with the given constant widths
createArrayAttr(op, name, widths) ==
    IF Has(getAttr(op, name))
    THEN << [MD(name) EXCEPT
               !.consts = [i \in 1..Len(widths) |->
                             ConstantIntGet(widths[i], Get(getAttr(op, name)).ints[i])]] >>
    ELSE <<>>

\* the operands of a loop node with the marker entries appended after the
\* multi-operand entries
LoopOptionsReordered(op, attr) ==
    (IF Has(attr) THEN LoopDictOptions(op, attr) ELSE <<>>)
    \o (IF Has(getAttr(op, "llvm.loop.name"))
        THEN << [MD("llvm.loop.name")
                   EXCEPT !.strs = <<Get(getAttr(op, "llvm.loop.name")).str>>] >>
        ELSE <<>>)
    \o createIntAttr(op, 32, "llvm.loop.vectorize.width")
    \o createIntAttr(op, 32, "llvm.loop.interleave.count")
    \o createIntAttr(op, 32, "llvm.loop.unroll.count")
    \o createIntAttr(op, 32, "llvm.loop.unroll.withoutcheck")
    \o createIntAttr(op, 1, "llvm.loop.vectorize.enable")
    \o createIntAttr(op, 1, "llvm.loop.distribute.enable")
    \o createIntAttr(op, 1, "llvm.loop.flatten.enable")
    \o createIntAttr(op, 1, "llvm.loop.dataflow.enable")
    \o createArrayAttr(op, "llvm.loop.pipeline.enable", <<32, 1, 8>>)
    \o createArrayAttr(op, "llvm.loop.latency", <<32, 32>>)
    \o createArrayAttr(op, "llvm.loop.tripcount", <<32, 32, 32>>)
    \o createUnitAttr(op, "llvm.loop.unroll.enable")
    \o createUnitAttr(op, "llvm.loop.unroll.full")
    \o createUnitAttr(op, "llvm.loop.unroll.disable")

\* the operands of a new loop node after the reserved operand 0
LoopOptions(op, attr) ==
    (IF Has(attr) THEN LoopDictOptions(op, attr) ELSE <<>>)
    \o (IF Has(getAttr(op, "llvm.loop.name"))
        THEN << [MD("llvm.loop.name")
                   EXCEPT !.strs = <<Get(getAttr(op, "llvm.loop.name")).str>>] >>
        ELSE <<>>)
    \o createIntAttr(op, 32, "llvm.loop.vectorize.width")
    \o createIntAttr(op, 32, "llvm.loop.interleave.count")
    \o createIntAttr(op, 32, "llvm.loop.unroll.count")
    \o createIntAttr(op, 32, "llvm.loop.unroll.withoutcheck")
    \o createIntAttr(op, 1, "llvm.loop.vectorize.enable")
    \o createIntAttr(op, 1, "llvm.loop.distribute.enable")
    \o createIntAttr(op, 1, "llvm.loop.flatten.enable")
    \o createIntAttr(op, 1, "llvm.loop.dataflow.enable")
    \o createUnitAttr(op, "llvm.loop.unroll.enable")
    \o createUnitAttr(op, "llvm.loop.unroll.full")
    \o createUnitAttr(op, "llvm.loop.unroll.disable")
    \o createArrayAttr(op, "llvm.loop.pipeline.enable", <<32, 1, 8>>)
    \o createArrayAttr(op, "llvm.loop.latency", <<32, 32>>)
    \o createArrayAttr(op, "llvm.loop.tripcount", <<32, 32, 32>>)

\* a lookup that prefers the llvm.loop attribute as key
LookupLoopMDPrimaryFirst(st, attr, altAttr) ==
    IF Has(attr) THEN lookupLoopOptionsMetadata(st, Get(attr))
    ELSE IF Has(altAttr) THEN lookupLoopOptionsMetadata(st, Get(altAttr))
    ELSE 0

\* the cached node the lookups leave in loopMD: the second lookup overwrites
\* the result of the first
LookupLoopMD(st, attr, altAttr) ==
    LET first == IF Has(attr) THEN lookupLoopOptionsMetadata(st, Get(attr)) ELSE 0
    IN  IF Has(altAttr) THEN lookupLoopOptionsMetadata(st, Get(altAttr)) ELSE first

\* setLoopMetadata(opInst, llvmInst, builder, moduleTranslation); llvmInst is
\* the instruction at index instIdx
setLoopMetadata(op, instIdx, st) ==
    LET attr == getAttr(op, LoopAttrName)
        altAttr == ProbeAltAttr(op, 1)
    IN  IF ~(Has(attr) \/ Has(altAttr)) THEN st
        ELSE
          LET cached == LookupLoopMD(st, attr, altAttr)
              newId == Len(st.mdNodes) + 1
              \* MDNode::get, then replaceOperandWith(0, loopMD)
              node == <<MDSelf(newId)>> \o LoopOptions(op, attr)
              built == [st EXCEPT !.mdNodes = Append(@, node)]
              mapped1 == IF Has(attr)
                         THEN mapLoopOptionsMetadata(built, Get(attr), newId)
                         ELSE built
              mapped2 == IF Has(altAttr)
                         THEN mapLoopOptionsMetadata(mapped1, Get(altAttr), newId)
                         ELSE mapped1
              st2 == IF cached = 0 THEN mapped2 ELSE st
              loopMD == IF cached = 0 THEN newId ELSE cached
          IN  [st2 EXCEPT !.insts[instIdx].loopMD = loopMD]

(***************************************************************************)
(* Operations.  Every operation record has all fields; an emitter reads    *)
(* the ones of its kind.                                                   *)
(***************************************************************************)
Op(kind) ==
    [id |-> 0, kind |-> kind, numResults |-> 0, resultType |-> "!llvm.void",
     callee |-> None, operands |-> <<>>, fmf |-> None,
     attrs |-> [n \in LoopAttrNames |-> None],
     weights |-> None, caseValues |-> None, succ |-> <<>>, cleanup |-> FALSE,
     pred |-> "", ordering |-> "", width |-> 32, asmDialect |-> None,
     operandAttrs |-> None, intrin |-> ""]

\* the outcome of an emitter: the context it leaves and its LogicalResult
Outcome(st, res) == [st |-> st, res |-> res]
success(st, b) == Outcome(st, IF b THEN "success" ELSE "failure")
Ran(st, emitter) == [st EXCEPT !.ran = Append(@, emitter)]
LastInst(st) == st.insts[Len(st.insts)]

\* Type::isVoidTy
isVoidTy(ty) == ty = "void"

\* the convertCall lambda: emits the call, its result is the last instruction
convertCall(op, st) ==
    LET operands == lookupValues(st, op.operands)
    IN  IF Has(op.callee)
        THEN LET fn == lookupFunction(Get(op.callee))
             IN  EmitCall(st, [Inst("call") EXCEPT !.callee = fn.name,
                                               !.ty = getReturnType(fn.ty),
                                               !.args = operands])
        ELSE LET calleeType == op.operands[1].ty
                 calleeFunctionType == convertType(getElementType(calleeType))
             IN  EmitCall(st, [Inst("call") EXCEPT !.fnPtr = Some(Head(operands)),
                                               !.ty = getReturnType(calleeFunctionType),
                                               !.args = Tail(operands)])

\* the arity check dropped: a zero-result call always succeeds
convertCallOpUnchecked(op, st0) ==
    LET st == convertCall(op, Ran(st0, "Call"))
        result == InstValue(st, LastInst(st).ty)
    IN  IF op.numResults # 0
        THEN success(mapValue(st, ResultOf(op), result), TRUE)
        ELSE success(st, TRUE)

\* the arity check applied to calls with a result as well
convertCallOpStrict(op, st0) ==
    LET st == convertCall(op, Ran(st0, "Call"))
        result == InstValue(st, LastInst(st).ty)
    IN  IF op.numResults # 0
        THEN success(mapValue(st, ResultOf(op), result), ~isVoidTy(result.ty))
        ELSE success(st, isVoidTy(result.ty))

\* if (isa<LLVM::CallOp>(opInst)) { ... }
convertCallOp(op, st0) ==
    LET st == convertCall(op, Ran(st0, "Call"))
        result == InstValue(st, LastInst(st).ty)
    IN  IF op.numResults # 0
        THEN success(mapValue(st, ResultOf(op), result), TRUE)
        ELSE success(st, isVoidTy(result.ty))

\* the parameter attributes of an inline assembly call: an elementtype at
\* index + shift for every operand attribute dictionary that is not null
RECURSIVE AsmAttrList(_, _, _)
AsmAttrList(operandAttrs, i, shift) ==
    IF i > Len(operandAttrs) THEN <<>>
    ELSE (IF Has(operandAttrs[i])
          THEN << <<(i - 1) + shift, convertType(Get(operandAttrs[i]))>> >>
          ELSE <<>>)
         \o AsmAttrList(operandAttrs, i + 1, shift)

\* if (auto inlineAsmOp = dyn_cast<LLVM::InlineAsmOp>(opInst)) { ... }
convertInlineAsmOp(op, st0) ==
    LET resultType == IF op.numResults = 0 THEN "!llvm.void" ELSE op.resultType
        shift == IF op.numResults > 0 THEN 1 ELSE 0
        call == [Inst("call") EXCEPT
                   !.callee = IF Has(op.asmDialect) THEN "asm " \o Get(op.asmDialect)
                              ELSE "asm",
                   !.ty = convertType(resultType),
                   !.args = lookupValues(st0, op.operands),
                   !.paramAttrs = IF Has(op.operandAttrs)
                                  THEN AsmAttrList(Get(op.operandAttrs), 1, shift)
                                  ELSE <<>>]
        st == Emit(Ran(st0, "InlineAsm"), call)
    IN  IF op.numResults # 0
        THEN success(mapValue(st, ResultOf(op), InstValue(st, call.ty)), TRUE)
        ELSE success(st, TRUE)

\* an invoke lowering that retracts the instruction and the branch mapping
\* when the arity check fails
convertInvokeOpRollback(op, st0) ==
    LET operands == lookupValues(st0, op.operands)
        blocks == <<lookupBlock(op.succ[1]), lookupBlock(op.succ[2])>>
        invoke ==
          IF Has(op.callee)
          THEN LET fn == lookupFunction(Get(op.callee))
               IN  [Inst("invoke") EXCEPT !.callee = fn.name,
                                          !.ty = getReturnType(fn.ty),
                                          !.succ = blocks, !.args = operands]
          ELSE LET calleeType == op.operands[1].ty
                   calleeFunctionType == convertType(getElementType(calleeType))
               IN  [Inst("invoke") EXCEPT !.fnPtr = Some(Head(operands)),
                                          !.ty = getReturnType(calleeFunctionType),
                                          !.succ = blocks, !.args = Tail(operands)]
        st1 == Emit(Ran(st0, "Invoke"), invoke)
        st == mapBranch(st1, op, Len(st1.insts))
        result == InstValue(st, invoke.ty)
    IN  IF op.numResults # 0
        THEN success(mapValue(st, ResultOf(op), result), TRUE)
        ELSE IF isVoidTy(result.ty) THEN success(st, TRUE)
        ELSE success(Ran(st0, "Invoke"), FALSE)

\* if (auto invOp = dyn_cast<LLVM::InvokeOp>(opInst)) { ... }
convertInvokeOp(op, st0) ==
    LET operands == lookupValues(st0, op.operands)
        blocks == <<lookupBlock(op.succ[1]), lookupBlock(op.succ[2])>>
        invoke ==
          IF Has(op.callee)
          THEN LET fn == lookupFunction(Get(op.callee))
               IN  [Inst("invoke") EXCEPT !.callee = fn.name,
                                          !.ty = getReturnType(fn.ty),
                                          !.succ = blocks, !.args = operands]
          ELSE LET calleeType == op.operands[1].ty
                   calleeFunctionType == convertType(getElementType(calleeType))
               IN  [Inst("invoke") EXCEPT !.fnPtr = Some(Head(operands)),
                                          !.ty = getReturnType(calleeFunctionType),
                                          !.succ = blocks, !.args = Tail(operands)]
        st1 == Emit(Ran(st0, "Invoke"), invoke)
        st == mapBranch(st1, op, Len(st1.insts))
        result == InstValue(st, invoke.ty)
    IN  IF op.numResults # 0
        THEN success(mapValue(st, ResultOf(op), result), TRUE)
        ELSE success(st, isVoidTy(result.ty))

\* every operand becomes a clause
AllClauses(operands) == operands

\* the operands that are constants, in operand order
RECURSIVE ConstantClauses(_)
ConstantClauses(operands) ==
    IF operands = <<>> THEN <<>>
    ELSE (IF isConstant(Head(operands)) THEN <<Head(operands)>> ELSE <<>>)
         \o ConstantClauses(Tail(operands))

\* if (auto lpOp = dyn_cast<LLVM::LandingpadOp>(opInst)) { ... }
convertLandingpadOp(op, st0) ==
    LET ty == convertType(op.resultType)
        lpi == [Inst("landingpad") EXCEPT
                  !.ty = ty, !.numReserved = Len(op.operands),
                  !.cleanup = op.cleanup,
                  !.clauses = ConstantClauses(lookupValues(st0, op.operands))]
        st == Emit(Ran(st0, "LandingPad"), lpi)
    IN  success(mapValue(st, ResultOf(op), InstValue(st, ty)), TRUE)

\* if (auto brOp = dyn_cast<LLVM::BrOp>(opInst)) { ... }
convertBrOp(op, st0) ==
    LET st1 == Emit(Ran(st0, "Br"),
                    [Inst("br") EXCEPT !.succ = <<lookupBlock(op.succ[1])>>])
        st2 == mapBranch(st1, op, Len(st1.insts))
    IN  success(setLoopMetadata(op, Len(st1.insts), st2), TRUE)

\* MDBuilder::createBranchWeights(trueWeight, falseWeight)
createBranchWeights2(trueWeight, falseWeight) == <<trueWeight, falseWeight>>

\* the two weights in the wrong order
CondBrWeightsSwapped(weights) ==
    createBranchWeights2(CastUInt32(getSExtValue(weights[2])),
                         CastUInt32(getSExtValue(weights[1])))

\* the branch weights of a conditional branch: each weight sign-extended to
\* int64_t, then cast to uint32_t
CondBrWeights(weights) ==
    createBranchWeights2(CastUInt32(getSExtValue(weights[1])),
                         CastUInt32(getSExtValue(weights[2])))

\* if (auto condbrOp = dyn_cast<LLVM::CondBrOp>(opInst)) { ... }
convertCondBrOp(op, st0) ==
    LET branchWeights == IF Has(op.weights)
                         THEN Some(CondBrWeights(Get(op.weights)))
                         ELSE None
        branch == [Inst("condbr") EXCEPT
                     !.args = <<lookupValue(st0, op.operands[1])>>,
                     !.succ = <<lookupBlock(op.succ[1]), lookupBlock(op.succ[2])>>,
                     !.weights = branchWeights]
        st1 == Emit(Ran(st0, "CondBr"), branch)
        st2 == mapBranch(st1, op, Len(st1.insts))
    IN  success(setLoopMetadata(op, Len(st1.insts), st2), TRUE)

Min(a, b) == IF a < b THEN a ELSE b

\* the case destinations of a switch: its successors after the default
getCaseDestinations(op) == Tail(op.succ)

\* the case constant of a case value: ConstantInt::get(ty, getLimitedValue())
CaseConstant(op, caseValue) ==
    ConstantIntGetU64(op.width, getLimitedValue(caseValue))

\* the case list a std::map keyed by the case value would produce: a later
\* case with a value seen before is dropped
SwitchCasesDedup(op) ==
    LET values == Get(op.caseValues)
        dests == getCaseDestinations(op)
        n == Min(Len(values), Len(dests))
        keep == {i \in 1..n : \A j \in 1..(i - 1) : values[j] # values[i]}
        RECURSIVE Build(_)
        Build(i) == IF i > n THEN <<>>
                    ELSE (IF i \in keep
                          THEN << <<CaseConstant(op, values[i]), lookupBlock(dests[i])>> >>
                          ELSE <<>>) \o Build(i + 1)
    IN  Build(1)

\* the addCase calls: one per element of zip(case values, case destinations)
SwitchCases(op) ==
    LET values == Get(op.caseValues)
        dests == getCaseDestinations(op)
    IN  [i \in 1..Min(Len(values), Len(dests)) |->
           <<CaseConstant(op, values[i]), lookupBlock(dests[i])>>]

\* what dereferencing the empty Optional of a switch without case_values can
\* do: abort the translation, or find nothing to iterate over
UBOutcomes == {"crash", "empty"}

\* if (auto switchOp = dyn_cast<LLVM::SwitchOp>(opInst)) { ... }
convertSwitchOp(op, st0, ub) ==
    LET branchWeights ==
          IF Has(op.weights)
          THEN Some([i \in 1..Len(Get(op.weights)) |->
                       CastUInt32(getLimitedValue(Get(op.weights)[i]))])
          ELSE None
        switchInst == [Inst("switch") EXCEPT
                         !.args = <<lookupValue(st0, op.operands[1])>>,
                         !.succ = <<lookupBlock(op.succ[1])>>,
                         !.numReserved = Len(getCaseDestinations(op)),
                         !.weights = branchWeights]
        st1 == Emit(Ran(st0, "Switch"), switchInst)
        idx == Len(st1.insts)
    IN  IF ~Has(op.caseValues) /\ ub = "crash"
        THEN Outcome(st1, "crash")
        ELSE LET cases == IF Has(op.caseValues) THEN SwitchCases(op) ELSE <<>>
                 st2 == [st1 EXCEPT !.insts[idx].cases = cases]
             IN  success(mapBranch(st2, op, idx), TRUE)

\* if (auto addressOfOp = dyn_cast<LLVM::AddressOfOp>(opInst)) { ... }
convertAddressOfOp(op, st0) ==
    LET name == Get(op.callee)
        st == Ran(st0, "AddressOf")
    IN  success(mapValue(st, ResultOf(op),
                         IF name \in Globals THEN lookupGlobal(name)
                         ELSE lookupFunction(name)), TRUE)

(***************************************************************************)
(* 4.3 Intrinsic calls.  An intrinsic is described by the descriptors of  *)
(* its type-pattern table: the return type, then the parameters.  A       *)
(* descriptor is a concrete type, "anyint" (an overloaded integer type)   *)
(* or "match0" (the type of overloaded type 0).                           *)
(***************************************************************************)
Intrinsics ==
    ("llvm.ctpop" :> [overloaded |-> TRUE, table |-> <<"anyint", "match0">>])
    @@ ("llvm.readcyclecounter" :> [overloaded |-> FALSE, table |-> <<"i64">>])
    @@ ("llvm.trap" :> [overloaded |-> FALSE, table |-> <<"void">>])

\* llvm::Function::lookupIntrinsicID: not_intrinsic (0) for an unknown name
lookupIntrinsicID(name) == IF name \in DOMAIN Intrinsics THEN name ELSE "not_intrinsic"
isOverloaded(id) == Intrinsics[id].overloaded
getIntrinsicInfoTableEntries(id) == Intrinsics[id].table

\* the match of one type against one descriptor: whether it fails, and the
\* overloaded types recovered so far
matchIntrinsicType(d, ty, argTys) ==
    CASE d = "anyint" ->
           [mismatch |-> ty \notin {"i1", "i32", "i64"}, argTys |-> Append(argTys, ty)]
      [] d = "match0" ->
           [mismatch |-> argTys = <<>> \/ argTys[1] # ty, argTys |-> argTys]
      [] OTHER ->
           [mismatch |-> ty # d, argTys |-> argTys]

\* the parameters from position i on against the descriptors after the
\* return descriptor; a parameter with no descriptor left does not match
RECURSIVE matchParams(_, _, _, _)
matchParams(params, table, i, argTys) ==
    IF i > Len(params) THEN [res |-> "Match", argTys |-> argTys]
    ELSE IF i + 1 > Len(table) THEN [res |-> "NoMatchArg", argTys |-> argTys]
    ELSE LET m == matchIntrinsicType(table[i + 1], params[i], argTys)
         IN  IF m.mismatch THEN [res |-> "NoMatchArg", argTys |-> m.argTys]
             ELSE matchParams(params, table, i + 1, m.argTys)

\* llvm::Intrinsic::matchIntrinsicSignature(ft, tableRef, overloadedArgTys)
matchIntrinsicSignature(ft, table) ==
    LET r == matchIntrinsicType(table[1], ft.ret, <<>>)
    IN  IF r.mismatch THEN [res |-> "NoMatchRet", argTys |-> r.argTys]
        ELSE matchParams(ft.params, table, 1, r.argTys)

\* llvm::Intrinsic::getDeclaration(module, id, tys): the declaration of that
\* instantiation, created in the module if it is not there
getDeclaration(st, id, tys) ==
    LET table == getIntrinsicInfoTableEntries(id)
        inst(d) == IF d \in {"anyint", "match0"} THEN tys[1] ELSE d
        fn == [id |-> id, tys |-> tys, ret |-> inst(table[1]),
               params |-> [i \in 1..(Len(table) - 1) |-> inst(table[i + 1])]]
    IN  [st |-> [st EXCEPT !.declarations = @ \cup {fn}], fn |-> Some(fn)]

\* getOverloadedDeclaration(op, id, module, moduleTranslation): failure is
\* a declaration of None
getOverloadedDeclaration(op, id, st) ==
    LET allArgTys == [i \in 1..Len(op.operands) |-> convertType(op.operands[i].ty)]
        resTy == IF op.numResults = 0 THEN "void" ELSE convertType(op.resultType)
        ft == [ret |-> resTy, params |-> allArgTys]
        m == matchIntrinsicSignature(ft, getIntrinsicInfoTableEntries(id))
    IN  IF m.res # "Match" THEN [st |-> st, fn |-> None]
        ELSE getDeclaration(st, id, m.argTys)

\* fetches the declaration of every intrinsic through the signature match
convertCallLLVMIntrinsicOpMatchAll(op, st0) ==
    LET id == lookupIntrinsicID(op.intrin)
    IN  IF id = "not_intrinsic" THEN success(st0, FALSE)
        ELSE
          LET d == getOverloadedDeclaration(op, id, st0)
          IN  IF ~Has(d.fn) THEN success(d.st, FALSE)
              ELSE
                LET fn == Get(d.fn)
                    st == EmitCall(d.st, [Inst("call") EXCEPT
                                            !.callee = id, !.decl = d.fn,
                                            !.ty = fn.ret,
                                            !.args = lookupValues(d.st, op.operands)])
                IN  IF op.numResults = 1
                    THEN success(mapValue(st, ResultOf(op), InstValue(st, fn.ret)), TRUE)
                    ELSE success(st, TRUE)

\* convertCallLLVMIntrinsicOp(op, builder, moduleTranslation)
convertCallLLVMIntrinsicOp(op, st0) ==
    LET id == lookupIntrinsicID(op.intrin)
    IN  IF id = "not_intrinsic" THEN success(st0, FALSE)
        ELSE
          LET d == IF isOverloaded(id) THEN getOverloadedDeclaration(op, id, st0)
                   ELSE getDeclaration(st0, id, <<>>)
          IN  IF ~Has(d.fn) THEN success(d.st, FALSE)
              ELSE
                LET fn == Get(d.fn)
                    st == EmitCall(d.st, [Inst("call") EXCEPT
                                            !.callee = id, !.decl = d.fn,
                                            !.ty = fn.ret,
                                            !.args = lookupValues(d.st, op.operands)])
                IN  IF op.numResults = 1
                    THEN success(mapValue(st, ResultOf(op), InstValue(st, fn.ret)), TRUE)
                    ELSE success(st, TRUE)

(***************************************************************************)
(* The table-driven lowering (LLVMConversions.inc): each entry builds the  *)
(* instruction of its operation, maps the result and returns success; the  *)
(* entry of an intrinsic call delegates to convertCallLLVMIntrinsicOp.     *)
(***************************************************************************)
TableKinds == {"FAdd", "ICmp", "FCmp", "AtomicRMW", "CallIntrinsic"}

\* the entry of an intrinsic call returns what convertCallLLVMIntrinsicOp
\* returns
convertTableOp(op, st0) ==
  IF op.kind = "CallIntrinsic" THEN convertCallLLVMIntrinsicOp(op, Ran(st0, "Table"))
  ELSE
    LET operands == lookupValues(st0, op.operands)
        st1 == Ran(st0, "Table")
        st ==
          CASE op.kind = "FAdd" ->
                 EmitFP(st1, [Inst("fadd") EXCEPT !.ty = "float", !.args = operands])
            [] op.kind = "ICmp" ->
                 Emit(st1, [Inst("icmp") EXCEPT !.ty = "i1", !.args = operands,
                              !.pred = getLLVMCmpPredicate(op.pred)])
            [] op.kind = "FCmp" ->
                 EmitFP(st1, [Inst("fcmp") EXCEPT !.ty = "i1", !.args = operands,
                                !.pred = getLLVMFCmpPredicate(op.pred)])
            [] op.kind = "AtomicRMW" ->
                 Emit(st1, [Inst("atomicrmw") EXCEPT !.ty = "i32", !.args = operands,
                              !.pred = getLLVMAtomicBinOp(op.pred),
                              !.ordering = getLLVMAtomicOrdering(op.ordering)])
    IN  success(mapValue(st, ResultOf(op), InstValue(st, LastInst(st).ty)), TRUE)

(***************************************************************************)
(* 4.5 The dispatcher.                                                     *)
(***************************************************************************)
\* the chain of special cases ending in return success()
SpecialCasesDefaultSuccess(op, st, ub) ==
    IF op.kind = "Call" THEN convertCallOp(op, st)
    ELSE IF op.kind = "InlineAsm" THEN convertInlineAsmOp(op, st)
    ELSE IF op.kind = "Invoke" THEN convertInvokeOp(op, st)
    ELSE IF op.kind = "LandingPad" THEN convertLandingpadOp(op, st)
    ELSE IF op.kind = "Br" THEN convertBrOp(op, st)
    ELSE IF op.kind = "CondBr" THEN convertCondBrOp(op, st)
    ELSE IF op.kind = "Switch" THEN convertSwitchOp(op, st, ub)
    ELSE IF op.kind = "AddressOf" THEN convertAddressOfOp(op, st)
    ELSE Outcome(st, "success")

\* the special cases after the included tables, first match wins
SpecialCases(op, st, ub) ==
    IF op.kind = "Call" THEN convertCallOp(op, st)
    ELSE IF op.kind = "InlineAsm" THEN convertInlineAsmOp(op, st)
    ELSE IF op.kind = "Invoke" THEN convertInvokeOp(op, st)
    ELSE IF op.kind = "LandingPad" THEN convertLandingpadOp(op, st)
    ELSE IF op.kind = "Br" THEN convertBrOp(op, st)
    ELSE IF op.kind = "CondBr" THEN convertCondBrOp(op, st)
    ELSE IF op.kind = "Switch" THEN convertSwitchOp(op, st, ub)
    ELSE IF op.kind = "AddressOf" THEN convertAddressOfOp(op, st)
    ELSE Outcome(st, "failure")

\* the scope of the FastMathFlagGuard: the flags of the operation are set,
\* the operation is lowered
GuardedLowering(op, st0, ub) ==
    LET st1 == IF Has(op.fmf)
               THEN [st0 EXCEPT !.builderFMF = getFastmathFlags(Get(op.fmf))]
               ELSE st0
    IN  IF op.kind \in TableKinds THEN convertTableOp(op, st1)
        ELSE SpecialCases(op, st1, ub)

\* a lowering without the guard: the flags set for the operation stay
convertOperationImplNoGuard(op, st0, ub) == GuardedLowering(op, st0, ub)

\* convertOperationImpl: the guard's destructor restores the flags the
\* builder had on entry on every return
convertOperationImpl(op, st0, ub) ==
    LET out == GuardedLowering(op, st0, ub)
    IN  IF out.res = "crash" THEN out
        ELSE Outcome([out.st EXCEPT !.builderFMF = st0.builderFMF], out.res)

(***************************************************************************)
(* State.                                                                  *)
(***************************************************************************)
VARIABLES
    insts,                       \* the instructions of the current block
    valueMapping,                \* ModuleTranslation::valueMapping
    branchMapping,               \* ModuleTranslation::branchMapping
    loopOptionsMetadataMapping,  \* ModuleTranslation::loopOptionsMetadataMapping
    mdNodes,                     \* the loop metadata nodes of the LLVM context
    builderFMF,                  \* the fast-math flags of the IRBuilder
    ran,                         \* emitters run by the last convertOperation
    mapCalls,                    \* its mapLoopOptionsMetadata calls
    declarations,                \* the intrinsic declarations of the llvm::Module
    ops,                         \* the operations lowered so far, in order
    results                      \* the LogicalResult of each of them

vars == <<insts, valueMapping, branchMapping, loopOptionsMetadataMapping,
          mdNodes, builderFMF, ran, mapCalls, declarations, ops, results>>

\* IR-A values the driver has mapped before the operations are lowered
PreValues ==
    { Value(0, "c1", "i32"), Value(0, "c2", "i32"), Value(0, "x", "i32"),
      Value(0, "cond", "i1"), Value(0, "p", "!llvm.ptr"),
      Value(0, "fp_void", "!llvm.ptr<func<void ()>>"),
      Value(0, "fp_i32", "!llvm.ptr<func<i32 ()>>"),
      Value(0, "fp_f32", "!llvm.ptr<func<f32 ()>>") }

PreMapped(v) ==
    LLVMValue(IF v.name \in {"c1", "c2"} THEN "const" ELSE "arg", v.name, 0,
              IF v.ty = "i32" THEN "i32" ELSE IF v.ty = "i1" THEN "i1" ELSE "ptr")

V(name) == CHOOSE v \in PreValues : v.name = name

\* the flags a driver may have left on the builder it passes in
InitialFMF == {{}, {"AllowContract"}}

Init ==
    /\ insts = <<>>
    /\ valueMapping = [v \in PreValues |-> PreMapped(v)]
    /\ branchMapping = [o \in {} |-> 0]
    /\ loopOptionsMetadataMapping = [a \in {} |-> 0]
    /\ mdNodes = <<>>
    /\ builderFMF \in InitialFMF
    /\ ran = <<>>
    /\ mapCalls = <<>>
    /\ declarations = {}
    /\ ops = <<>>
    /\ results = <<>>

Context ==
    [insts |-> insts, valueMapping |-> valueMapping,
     branchMapping |-> branchMapping,
     loopOptionsMetadataMapping |-> loopOptionsMetadataMapping,
     mdNodes |-> mdNodes, builderFMF |-> builderFMF,
     ran |-> <<>>, mapCalls |-> <<>>, declarations |-> declarations]

Crashed == results # <<>> /\ results[Len(results)] = "crash"

\* the context and the result a lowering leaves
Returned(op, out) ==
    /\ insts' = out.st.insts
    /\ valueMapping' = out.st.valueMapping
    /\ branchMapping' = out.st.branchMapping
    /\ loopOptionsMetadataMapping' = out.st.loopOptionsMetadataMapping
    /\ mdNodes' = out.st.mdNodes
    /\ builderFMF' = out.st.builderFMF
    /\ ran' = out.st.ran
    /\ mapCalls' = out.st.mapCalls
    /\ declarations' = out.st.declarations
    /\ ops' = Append(ops, op)
    /\ results' = Append(results, out.res)

\* LLVMDialectLLVMIRTranslationInterface::convertOperation on the next
\* operation of the module; max bounds the number of operations
convertOperation(op0, ub, max) ==
    /\ Len(ops) < max
    /\ ~Crashed
    /\ Returned([op0 EXCEPT !.id = Len(ops) + 1],
                convertOperationImpl([op0 EXCEPT !.id = Len(ops) + 1], Context, ub))

(***************************************************************************)
(* The operations the model lowers.                                        *)
(***************************************************************************)
SeqsUpTo(S, n) == UNION {[1..k -> S] : k \in 0..n}

\* direct and indirect calls with zero or one result
CallLike(kind, argLists, succ) ==
    { [Op(kind) EXCEPT !.callee = Some(f), !.numResults = n,
                       !.resultType = IF n = 1 THEN "i32" ELSE "!llvm.void",
                       !.operands = args, !.succ = succ]
        : f \in Functions, n \in {0, 1}, args \in argLists }
    \cup
    { [Op(kind) EXCEPT !.numResults = n,
                       !.resultType = IF n = 1 THEN "i32" ELSE "!llvm.void",
                       !.operands = <<V(fp)>> \o args, !.succ = succ]
        : fp \in {"fp_void", "fp_i32", "fp_f32"}, n \in {0, 1}, args \in argLists }

CallOps(argLists) == CallLike("Call", argLists, <<>>)
InvokeOps(argLists) == CallLike("Invoke", argLists, <<"^bb1", "^bb2">>)

InlineAsmOps ==
    { [Op("InlineAsm") EXCEPT !.numResults = n, !.resultType = "i32",
                              !.operands = <<V("x"), V("p")>>,
                              !.asmDialect = d, !.operandAttrs = a]
        : n \in {0, 1}, d \in {None}, 
          a \in {None, Some(<<None, Some("i32")>>)} }
    \cup { [Op("InlineAsm") EXCEPT !.asmDialect = Some("intel")] }

LandingpadOps(maxLen) ==
    { [Op("LandingPad") EXCEPT !.numResults = 1,
                               !.resultType = "!llvm.struct<(ptr, i32)>",
                               !.operands = operands, !.cleanup = c]
        : operands \in SeqsUpTo({V("c1"), V("x"), V("c2")}, maxLen),
          c \in BOOLEAN }

\* loop attributes
LoopA == LoopDictAttr(None, Some(<< <<"disable_unroll", 1>> >>))
LoopB == LoopDictAttr(Some(<<"@ag1", "@ag2">>),
                      Some(<< <<"interleave_count", 4>>, <<"disable_licm", 0>> >>))
NoLoopAttrs == [n \in LoopAttrNames |-> None]
WithAttr(attrs, name, attr) == [attrs EXCEPT ![name] = Some(attr)]

LoopAttrSets ==
    { NoLoopAttrs,
      WithAttr(NoLoopAttrs, LoopAttrName, LoopA),
      WithAttr(NoLoopAttrs, LoopAttrName, LoopB),
      WithAttr(NoLoopAttrs, "llvm.loop.name", StringAttr("L1")),
      WithAttr(NoLoopAttrs, "llvm.loop.unroll.count", IntegerAttr(4)),
      WithAttr(NoLoopAttrs, "llvm.loop.vectorize.width", IntegerAttr(4)),
      WithAttr(NoLoopAttrs, "llvm.loop.unroll.full", UnitAttr),
      WithAttr(WithAttr(NoLoopAttrs, LoopAttrName, LoopA),
               "llvm.loop.name", StringAttr("L1")),
      WithAttr(WithAttr(NoLoopAttrs, LoopAttrName, LoopA),
               "llvm.loop.unroll.count", IntegerAttr(4)),
      WithAttr(WithAttr(NoLoopAttrs, "llvm.loop.name", StringAttr("L1")),
               "llvm.loop.unroll.count", IntegerAttr(4)),
      WithAttr(WithAttr(NoLoopAttrs, "llvm.loop.pipeline.enable", ArrayAttr(<<2, 1, 0>>)),
               "llvm.loop.unroll.full", UnitAttr),
      WithAttr(WithAttr(NoLoopAttrs, "llvm.loop.latency", ArrayAttr(<<1, 5>>)),
               "llvm.loop.tripcount", ArrayAttr(<<1, 8, 4>>)) }

BrOps(attrSets) ==
    { [Op("Br") EXCEPT !.succ = <<"^bb1">>, !.attrs = a] : a \in attrSets }

\* branch weights: two APInt of one width
WeightVals == {0, 7, 3, -1, 70000}
WeightPairs ==
    { <<w, t, f>> \in {16, 32, 64} \X WeightVals \X WeightVals :
        w = 16 => (t < 32768 /\ f < 32768) }
WeightsAttr(w, t, f) == Some(<<APIntOf(w, t), APIntOf(w, f)>>)

CondBrOps(attrSets, weightPairs) ==
    { [Op("CondBr") EXCEPT !.operands = <<V("cond")>>,
                           !.succ = <<"^bb1", "^bb2">>, !.attrs = a, !.weights = w]
        : a \in attrSets,
          w \in {None} \cup {WeightsAttr(p[1], p[2], p[3]) : p \in weightPairs} }

\* switches: case values of the width of the switch value, one destination
\* per case
CaseVals == {5, 1, -1}
CaseBlocks == <<"^bb1", "^bb2", "^bb3">>
CaseDests(n, r) == [i \in 1..n |-> CaseBlocks[((i + r) % 3) + 1]]

SwitchOps(maxLen) ==
    { [Op("Switch") EXCEPT
         !.operands = <<V("x")>>,
         !.caseValues = Some([i \in 1..Len(vals) |-> APIntOf(32, vals[i])]),
         !.succ = <<"^bb0">> \o CaseDests(Len(vals), r)]
        : vals \in SeqsUpTo(CaseVals, maxLen) \ {<<>>}, r \in {0, 1} }
    \cup { [Op("Switch") EXCEPT !.operands = <<V("x")>>, !.succ = <<"^bb0">>] }
    \cup { [Op("Switch") EXCEPT
              !.operands = <<V("x")>>,
              !.caseValues = Some(<<APIntOf(32, 5), APIntOf(32, 1)>>),
              !.succ = <<"^bb0", "^bb1", "^bb2">>,
              !.weights = Some(<<APIntOf(32, 1), APIntOf(32, 7), APIntOf(32, -1)>>)] }

AddressOfOps ==
    { [Op("AddressOf") EXCEPT !.numResults = 1, !.resultType = "!llvm.ptr",
                              !.callee = Some(name)]
        : name \in {"g", "f_void"} }

\* operations lowered by the tables
FAddOps(flagSets) ==
    { [Op("FAdd") EXCEPT !.numResults = 1, !.resultType = "f32",
                         !.operands = <<V("x"), V("x")>>, !.fmf = Some(S)]
        : S \in flagSets }
ICmpOps(preds) ==
    { [Op("ICmp") EXCEPT !.numResults = 1, !.resultType = "i1",
                         !.operands = <<V("x"), V("c1")>>, !.pred = p]
        : p \in preds }
FCmpOps(preds, flagSets) ==
    { [Op("FCmp") EXCEPT !.numResults = 1, !.resultType = "i1",
                         !.operands = <<V("x"), V("x")>>, !.pred = p,
                         !.fmf = Some(S)]
        : p \in preds, S \in flagSets }
AtomicRMWOps(pairs) ==
    { [Op("AtomicRMW") EXCEPT !.numResults = 1, !.resultType = "i32",
                              !.operands = <<V("p"), V("x")>>,
                              !.pred = bo[1], !.ordering = bo[2]]
        : bo \in pairs }

\* intrinsic calls: an overloaded intrinsic with operands and results of
\* matching and of other types and counts, intrinsics that are not
\* overloaded with results of any count and type, and an unknown name
CallIntrinsicOps ==
    { [Op("CallIntrinsic") EXCEPT !.intrin = name, !.operands = operands,
                                  !.numResults = n, !.resultType = ty]
        : name \in {"llvm.ctpop", "llvm.bogus"},
          operands \in {<<V("x")>>, <<V("cond")>>, <<V("p")>>, <<V("x"), V("x")>>},
          n \in {0, 1, 2}, ty \in {"i32", "i1"} }
    \cup
    { [Op("CallIntrinsic") EXCEPT !.intrin = name, !.numResults = n,
                                  !.resultType = ty]
        : name \in {"llvm.readcyclecounter", "llvm.trap", "llvm.bogus"},
          n \in {0, 1, 2}, ty \in {"i32", "i64"} }

\* an operation of the dialect with no table entry and no special case
UnknownOps == { Op("Unknown") }

(***************************************************************************)
(* Actions: convertOperation on one operation of each kind.                *)
(***************************************************************************)
FewLoopAttrSets ==
    { NoLoopAttrs, WithAttr(NoLoopAttrs, LoopAttrName, LoopA),
      WithAttr(NoLoopAttrs, "llvm.loop.name", StringAttr("L1")) }

\* the operations each action draws from
Inputs ==
    [ MainCallOps |->
          CallOps({<<>>}),
      MainInvokeOps |->
          InvokeOps({<<>>}),
      MainLandingpadOps |->
          LandingpadOps(1),
      MainBrOps |->
          BrOps(FewLoopAttrSets),
      MainCondBrOps |->
          CondBrOps(FewLoopAttrSets, {<<32, 7, 3>>}),
      MainSwitchOps |->
          SwitchOps(1),
      MainTableOps |->
          FAddOps({{}, {"nnan"}, {"nsz", "reassoc"}}) \cup ICmpOps({"slt"})
          \cup FCmpOps({"oeq"}, {{"ninf"}})
          \cup AtomicRMWOps({<<"add", "seq_cst">>}),
      AllCallOps |->
          CallOps({<<>>, <<V("x")>>}),
      AllInvokeOps |->
          InvokeOps({<<>>, <<V("x")>>}),
      LoopBrOps |->
          BrOps(LoopAttrSets),
      LoopCondBrOps |->
          CondBrOps(LoopAttrSets, {}),
      WeightedCondBrOps |->
          CondBrOps({NoLoopAttrs}, WeightPairs),
      AllSwitchOps |->
          SwitchOps(MaxLen),
      AllLandingpadOps |->
          LandingpadOps(MaxLen),
      AllICmpOps |->
          ICmpOps(ICmpPredicates),
      AllFCmpOps |->
          FCmpOps(FCmpPredicates, {{}}),
      AllAtomicRMWOps |->
          AtomicRMWOps(AtomicBinOps \X AtomicOrderings),
      AllFAddOps |->
          FAddOps(SUBSET FastmathFlags) ]

LowerCall == \E op \in Inputs.MainCallOps : convertOperation(op, "empty", MaxOps)
LowerInlineAsm == \E op \in InlineAsmOps : convertOperation(op, "empty", MaxOps)
LowerInvoke == \E op \in Inputs.MainInvokeOps : convertOperation(op, "empty", MaxOps)
LowerLandingpad == \E op \in Inputs.MainLandingpadOps : convertOperation(op, "empty", MaxOps)
LowerBr == \E op \in Inputs.MainBrOps : convertOperation(op, "empty", MaxOps)
LowerCondBr ==
    \E op \in Inputs.MainCondBrOps :
        convertOperation(op, "empty", MaxOps)
LowerSwitch ==
    \E op \in Inputs.MainSwitchOps, ub \in UBOutcomes : convertOperation(op, ub, MaxOps)
LowerAddressOf == \E op \in AddressOfOps : convertOperation(op, "empty", MaxOps)
LowerTable ==
    \E op \in Inputs.MainTableOps :
        convertOperation(op, "empty", MaxOps)
LowerUnknown == \E op \in UnknownOps : convertOperation(op, "empty", MaxOps)

Next ==
    \/ LowerCall
    \/ LowerInlineAsm
    \/ LowerInvoke
    \/ LowerLandingpad
    \/ LowerBr
    \/ LowerCondBr
    \/ LowerSwitch
    \/ LowerAddressOf
    \/ LowerTable
    \/ LowerUnknown

Spec == Init /\ [][Next]_vars

\* calls and invokes, direct and indirect, with and without arguments
LowerCallArgs == \E op \in Inputs.AllCallOps : convertOperation(op, "empty", MaxOps)
LowerInvokeArgs == \E op \in Inputs.AllInvokeOps : convertOperation(op, "empty", MaxOps)
NextCall == LowerCallArgs \/ LowerInvokeArgs
SpecCall == Init /\ [][NextCall]_vars

\* branches carrying loop attributes
LowerLoopBr == \E op \in Inputs.LoopBrOps : convertOperation(op, "empty", MaxOps)
LowerLoopCondBr ==
    \E op \in Inputs.LoopCondBrOps : convertOperation(op, "empty", MaxOps)
NextLoop == LowerLoopBr \/ LowerLoopCondBr
SpecLoop == Init /\ [][NextLoop]_vars

\* conditional branches with and without branch weights
LowerWeightedCondBr ==
    \E op \in Inputs.WeightedCondBrOps :
        convertOperation(op, "empty", MaxSingleOps)
SpecCondBr == Init /\ [][LowerWeightedCondBr]_vars

\* switches over all case lists up to MaxLen
LowerAnySwitch ==
    \E op \in Inputs.AllSwitchOps, ub \in UBOutcomes :
        convertOperation(op, ub, MaxSingleOps)
SpecSwitch == Init /\ [][LowerAnySwitch]_vars

\* landing pads over all operand lists up to MaxLen
LowerAnyLandingpad ==
    \E op \in Inputs.AllLandingpadOps : convertOperation(op, "empty", MaxSingleOps)
SpecLandingpad == Init /\ [][LowerAnyLandingpad]_vars

\* the operations whose table entry calls an enum translator
LowerICmp ==
    \E op \in Inputs.AllICmpOps : convertOperation(op, "empty", MaxSingleOps)
LowerFCmp ==
    \E op \in Inputs.AllFCmpOps :
        convertOperation(op, "empty", MaxSingleOps)
LowerAtomicRMW ==
    \E op \in Inputs.AllAtomicRMWOps :
        convertOperation(op, "empty", MaxSingleOps)
NextEnum == LowerICmp \/ LowerFCmp \/ LowerAtomicRMW
SpecEnum == Init /\ [][NextEnum]_vars

\* floating-point operations over every set of fast-math flags
LowerFAdd ==
    \E op \in Inputs.AllFAddOps :
        convertOperation(op, "empty", MaxSingleOps)
SpecFmf == Init /\ [][LowerFAdd]_vars

\* intrinsic calls
LowerCallIntrinsic ==
    \E op \in CallIntrinsicOps : convertOperation(op, "empty", MaxOps)
SpecIntrinsic == Init /\ [][LowerCallIntrinsic]_vars

(***************************************************************************)
(* Properties.                                                             *)
(***************************************************************************)
Lowered == 1..Len(ops)
EmitsInst(op) == op.kind \notin {"AddressOf", "Unknown"}
\* the instruction emitted for the i-th operation
InstIndex(i) == Cardinality({j \in 1..i : EmitsInst(ops[j])})
InstOf(i) == insts[InstIndex(i)]
IsBranch(op) == op.kind \in {"Br", "CondBr"}

\* C1: any two lowered branch operations that carry the same llvm.loop
\* attribute have the same loop metadata node attached, whatever other loop
\* attributes they carry.
C1_SameAttrSameNode ==
    \A i, j \in Lowered :
        (/\ IsBranch(ops[i]) /\ IsBranch(ops[j])
         /\ Has(getAttr(ops[i], LoopAttrName))
         /\ getAttr(ops[i], LoopAttrName) = getAttr(ops[j], LoopAttrName))
        => InstOf(i).loopMD = InstOf(j).loopMD

\* the callee of a call or invoke returns void, by its declaration (direct)
\* or by the pointee type of the called pointer (indirect)
CalleeReturnsVoid(op) ==
    IF Has(op.callee) THEN Get(op.callee) = "f_void"
    ELSE op.operands[1].name = "fp_void"

\* C2: a lowered Call or Invoke with zero results succeeded iff its
\* instruction has return type void, which is iff its callee returns void;
\* with a non-void callee it failed.
C2_ZeroResultArity ==
    \A i \in Lowered :
        (ops[i].kind \in {"Call", "Invoke"} /\ ops[i].numResults = 0)
        => /\ (results[i] = "success") <=> (InstOf(i).ty = "void")
           /\ (InstOf(i).ty = "void") <=> CalleeReturnsVoid(ops[i])
           /\ ~CalleeReturnsVoid(ops[i]) => results[i] = "failure"

C2_Witness ==
    /\ \E i \in Lowered :
          /\ ops[i].kind = "Invoke" /\ ops[i].numResults = 0
          /\ ~CalleeReturnsVoid(ops[i]) /\ results[i] = "failure"
    /\ \E i \in Lowered :
          /\ ops[i].kind = "Call" /\ ops[i].numResults = 0
          /\ Has(ops[i].callee) /\ CalleeReturnsVoid(ops[i])
          /\ results[i] = "success"

OneResultVoidCall(op) ==
    /\ op.kind = "Call" /\ Has(op.callee) /\ op.numResults = 1
    /\ CalleeReturnsVoid(op)

\* C3 as stated: a lowered direct Call with one result whose callee is
\* declared void failed.
C3_OneResultVoidCallFails ==
    \A i \in Lowered : OneResultVoidCall(ops[i]) => results[i] = "failure"

\* C3 amended: a lowered direct Call with one result whose callee is
\* declared void succeeded, and its result is mapped to the emitted call.
C3_OneResultVoidCallSucceeds ==
    \A i \in Lowered :
        OneResultVoidCall(ops[i])
        => /\ results[i] = "success"
           /\ ResultOf(ops[i]) \in DOMAIN valueMapping
           /\ valueMapping[ResultOf(ops[i])] =
                 LLVMValue("inst", "", InstIndex(i), "void")
           /\ InstOf(i).opc = "call"

C3_Witness ==
    \E i \in Lowered : OneResultVoidCall(ops[i]) /\ results[i] = "success"

\* C4: the case list of the switch instruction of a lowered Switch is, in
\* the order of the operation and with duplicates kept, the pair of each
\* case value and the mapped block of its destination; the default target
\* is the mapped default block.
C4_SwitchCaseOrder ==
    \A i \in Lowered :
        ops[i].kind = "Switch"
        => LET op == ops[i]
               inst == InstOf(i)
               n == IF Has(op.caseValues) THEN Len(Get(op.caseValues)) ELSE 0
           IN  /\ inst.opc = "switch"
               /\ inst.succ = <<lookupBlock(op.succ[1])>>
               /\ Len(inst.cases) = n
               /\ \A k \in 1..n :
                     /\ inst.cases[k][1] = Get(op.caseValues)[k]
                     /\ inst.cases[k][2] = lookupBlock(op.succ[k + 1])
               /\ Has(op.caseValues) => results[i] = "success"

C4_Witness ==
    \E i \in Lowered :
        /\ ops[i].kind = "Switch" /\ results[i] = "success"
        /\ Has(ops[i].caseValues)
        /\ Get(ops[i].caseValues) =
              <<APIntOf(32, 5), APIntOf(32, 1), APIntOf(32, 5)>>
        /\ InstOf(i).cases = << <<APIntOf(32, 5), "bb2">>,
                                <<APIntOf(32, 1), "bb3">>,
                                <<APIntOf(32, 5), "bb1">> >>

IsConstOperand(v) == valueMapping[v].kind = "const"

\* C5: the clauses of the landing pad of a lowered Landingpad are the mapped
\* operands that are constants, in operand order; the lowering succeeded
\* and the result is mapped to the landing pad.
C5_LandingpadClauses ==
    \A i \in Lowered :
        ops[i].kind = "LandingPad"
        => LET op == ops[i]
               constOperands == SelectSeq(op.operands, IsConstOperand)
           IN  /\ InstOf(i).opc = "landingpad"
               /\ InstOf(i).clauses =
                     [k \in 1..Len(constOperands) |-> valueMapping[constOperands[k]]]
               /\ results[i] = "success"
               /\ valueMapping[ResultOf(op)].kind = "inst"
               /\ valueMapping[ResultOf(op)].idx = InstIndex(i)

C5_Witness ==
    \E i \in Lowered :
        /\ ops[i].kind = "LandingPad" /\ results[i] = "success"
        /\ ops[i].operands = <<V("c1"), V("x"), V("c2")>>
        /\ Len(InstOf(i).clauses) = 2
        /\ InstOf(i).clauses[1].name = "c1"
        /\ InstOf(i).clauses[2].name = "c2"

\* f is injective on D and D has n elements
InjectiveOn(f(_), D, n) ==
    /\ Cardinality(D) = n
    /\ Cardinality({f(x) : x \in D}) = n

\* every translator maps each variant of its domain to an output of its own
TranslatorsInjective(nICmp, nFCmp, nBinOp, nOrdering) ==
    /\ InjectiveOn(getLLVMCmpPredicate, ICmpPredicates, nICmp)
    /\ InjectiveOn(getLLVMFCmpPredicate, FCmpPredicates, nFCmp)
    /\ InjectiveOn(getLLVMAtomicBinOp, AtomicBinOps, nBinOp)
    /\ InjectiveOn(getLLVMAtomicOrdering, AtomicOrderings, nOrdering)

\* the translated enum values of a lowered comparison or atomic operation
\* determine the values of the operation
EmittedEnumsIdentifySource ==
    \A i \in Lowered :
        /\ ops[i].kind = "ICmp" =>
              \A q \in ICmpPredicates :
                  (getLLVMCmpPredicate(q) = InstOf(i).pred) <=> (q = ops[i].pred)
        /\ ops[i].kind = "FCmp" =>
              \A q \in FCmpPredicates :
                  (getLLVMFCmpPredicate(q) = InstOf(i).pred) <=> (q = ops[i].pred)
        /\ ops[i].kind = "AtomicRMW" =>
              /\ \A q \in AtomicBinOps :
                    (getLLVMAtomicBinOp(q) = InstOf(i).pred) <=> (q = ops[i].pred)
              /\ \A q \in AtomicOrderings :
                    (getLLVMAtomicOrdering(q) = InstOf(i).ordering)
                        <=> (q = ops[i].ordering)

\* C6 as stated: the four enum translators are total and injective, over 10
\* integer predicates, 14 float predicates, 13 atomic operators and 7
\* orderings.
C6_Bijections14 ==
    TranslatorsInjective(10, 14, 13, 7) /\ EmittedEnumsIdentifySource

\* C6 amended: the four enum translators are total and injective, over 10
\* integer predicates, 16 float predicates, 13 atomic operators and 7
\* orderings; the enum values of an emitted instruction determine those of
\* its operation.
C6_Bijections16 ==
    TranslatorsInjective(10, 16, 13, 7) /\ EmittedEnumsIdentifySource

C6_Witness ==
    \E i \in Lowered :
        /\ ops[i].kind = "FCmp" /\ ops[i].pred = "uno"
        /\ InstOf(i).pred = "FCMP_UNO"

\* the llvm::FastMathFlags property of each MLIR fast-math flag
FlagProperty(f) ==
    CASE f = "nnan"     -> "NoNaNs"
      [] f = "ninf"     -> "NoInfs"
      [] f = "nsz"      -> "NoSignedZeros"
      [] f = "arcp"     -> "AllowReciprocal"
      [] f = "contract" -> "AllowContract"
      [] f = "afn"      -> "ApproxFunc"
      [] f = "reassoc"  -> "AllowReassoc"

\* C7: the instruction of a lowered floating-point operation carrying the
\* flag set S has exactly the flags corresponding to S, and getFastmathFlags
\* yields exactly those for every subset of the seven flags.
C7_FastmathExact ==
    /\ \A i \in Lowered :
          ops[i].kind = "FAdd"
          => InstOf(i).fmf = {FlagProperty(f) : f \in Get(ops[i].fmf)}
    /\ \A S \in SUBSET FastmathFlags :
          getFastmathFlags(S) = {FlagProperty(f) : f \in S}

C7_Witness ==
    \E i \in Lowered :
        /\ ops[i].kind = "FAdd"
        /\ Get(ops[i].fmf) = {"nsz", "afn"}
        /\ InstOf(i).fmf = {"NoSignedZeros", "ApproxFunc"}
        /\ builderFMF # InstOf(i).fmf

SpecialKinds == {"Call", "InlineAsm", "Invoke", "LandingPad", "Br", "CondBr",
                 "Switch", "AddressOf"}

\* one step of the entry point, on the operation it lowered
C8_Step ==
    LET op == ops'[Len(ops')]
        res == results'[Len(results')]
    IN  /\ op.kind \in TableKinds => ran' = <<"Table">>
        /\ op.kind \in SpecialKinds => ran' = <<op.kind>>
        /\ op.kind \notin (TableKinds \cup SpecialKinds)
              => /\ ran' = <<>>
                 /\ res = "failure"
                 /\ insts' = insts
                 /\ valueMapping' = valueMapping
                 /\ branchMapping' = branchMapping
                 /\ loopOptionsMetadataMapping' = loopOptionsMetadataMapping
                 /\ mdNodes' = mdNodes

\* C8: for an operation with a table entry only the table-driven lowering
\* runs; otherwise exactly the emitter of its kind runs; an operation of no
\* known kind makes the entry point fail with no instruction emitted and no
\* value, branch or loop metadata mapping changed.
C8_Dispatch == [][C8_Step]_vars

C8_Witness ==
    /\ Len(ops) = 2
    /\ ops[1].kind = "Br" /\ Has(getAttr(ops[1], LoopAttrName))
    /\ ops[2].kind = "Unknown" /\ results[2] = "failure"
    /\ ran = <<>> /\ Len(insts) = 1

\* one step of the entry point: the builder's flags are what they were, and
\* the instruction of an operation without fast-math flags has the builder's
\* flags if it is a floating-point call, and none otherwise
C9_Step ==
    LET op == ops'[Len(ops')]
        inst == insts'[Len(insts')]
    IN  /\ builderFMF' = builderFMF
        /\ (~Has(op.fmf) /\ Len(insts') > Len(insts))
              => inst.fmf = IF inst.opc = "call" /\ inst.ty = "float"
                            THEN builderFMF ELSE {}

\* C9: every lowering, successful or failed, leaves the builder's fast-math
\* flags as they were before it; an operation without fast-math flags is
\* lowered under those flags.
C9_FlagsRestored == [][C9_Step]_vars

C9_Witness ==
    /\ Len(ops) = 2
    /\ Has(ops[1].fmf) /\ insts[1].fmf = {"NoSignedZeros", "AllowReassoc"}
    /\ ops[2].kind = "Call" /\ insts[2].ty = "float"
    /\ insts[2].fmf = {"AllowContract"}
    /\ builderFMF = {"AllowContract"}

\* v modulo 2^32 as two 16-bit limbs, low limb first
ModU32(v) ==
    IF v >= 0 THEN <<v % LimbBase, v \div LimbBase>>
    ELSE <<LimbMax - (((-v) - 1) % LimbBase), LimbMax - (((-v) - 1) \div LimbBase)>>

\* C10: the branch weights of the conditional branch of a lowered CondBr
\* with weights (t, f) are t modulo 2^32, then f modulo 2^32; without the
\* attribute the branch has no branch weights.
C10_BranchWeights ==
    \A i \in Lowered :
        ops[i].kind = "CondBr"
        => /\ InstOf(i).opc = "condbr"
           /\ ~Has(ops[i].weights) => InstOf(i).weights = None
           /\ \A p \in WeightPairs :
                 ops[i].weights = WeightsAttr(p[1], p[2], p[3])
                 => InstOf(i).weights = Some(<<ModU32(p[2]), ModU32(p[3])>>)

C10_Witness ==
    \E i \in Lowered :
        /\ ops[i].kind = "CondBr"
        /\ ops[i].weights = WeightsAttr(16, 7, -1)
        /\ InstOf(i).weights = Some(<< <<7, 0>>, <<65535, 65535>> >>)

\* the operation lowered last, and whether its lowering built a loop node
\* (a lowering that builds a node registers it at least once)
LastOp == ops[Len(ops)]
BuiltNode == ops # <<>> /\ IsBranch(LastOp) /\ mapCalls # <<>>
NewNode == Len(mdNodes)
LoopMarkerNames == {LoopAttrName} \cup {ProbedNames[i] : i \in 1..Len(ProbedNames)}

\* C11: after a branch lowering that built a new loop node, a cache lookup
\* with the llvm.loop attribute and with every legacy loop attribute present
\* on the operation returns that node.
C11_RegisteredUnderEveryMarker ==
    BuiltNode =>
        \A n \in LoopMarkerNames :
            Has(getAttr(LastOp, n)) =>
                lookupLoopOptionsMetadata(Context, Get(getAttr(LastOp, n))) = NewNode

\* C12: the cache is append-only: a lowering never calls
\* mapLoopOptionsMetadata for an attribute that is already bound, and every
\* binding stays as it is.
C12_Step ==
    /\ \A k \in 1..Len(mapCalls') :
           mapCalls'[k][1] \notin DOMAIN loopOptionsMetadataMapping
    /\ \A a \in DOMAIN loopOptionsMetadataMapping :
           /\ a \in DOMAIN loopOptionsMetadataMapping'
           /\ loopOptionsMetadataMapping'[a] = loopOptionsMetadataMapping[a]

C12_AppendOnly == [][C12_Step]_vars

\* the name and the number of values of an entry of a loop node
EntryShape(e) == <<e.name, Len(e.strs) + Len(e.consts) + Len(e.refs)>>

\* the legacy entries in the order of the node, with their number of values
LegacyOrder ==
    << <<"llvm.loop.name", 1>>, <<"llvm.loop.vectorize.width", 1>>,
       <<"llvm.loop.interleave.count", 1>>, <<"llvm.loop.unroll.count", 1>>,
       <<"llvm.loop.unroll.withoutcheck", 1>>, <<"llvm.loop.vectorize.enable", 1>>,
       <<"llvm.loop.distribute.enable", 1>>, <<"llvm.loop.flatten.enable", 1>>,
       <<"llvm.loop.dataflow.enable", 1>>, <<"llvm.loop.unroll.enable", 0>>,
       <<"llvm.loop.unroll.full", 0>>, <<"llvm.loop.unroll.disable", 0>>,
       <<"llvm.loop.pipeline.enable", 3>>, <<"llvm.loop.latency", 2>>,
       <<"llvm.loop.tripcount", 3>> >>

OptionName(option) ==
    CASE option = "disable_licm" -> "llvm.licm.disable"
      [] option = "disable_unroll" -> "llvm.loop.unroll.disable"
      [] option = "interleave_count" -> "llvm.loop.interleave.count"
      [] option = "disable_pipeline" -> "llvm.loop.pipeline.disable"
      [] option = "pipeline_initiation_interval" ->
           "llvm.loop.pipeline.initiationinterval"

\* the entries the claim lists for an operation, in its order
ExpectedShapes(op) ==
    LET attr == getAttr(op, LoopAttrName)
        par == IF Has(attr) /\ Has(Get(attr).par)
               THEN << <<"llvm.loop.parallel_accesses", Len(Get(Get(attr).par))>> >>
               ELSE <<>>
        opts == IF Has(attr) /\ Has(Get(attr).opts)
                THEN [i \in 1..Len(Get(Get(attr).opts)) |->
                        <<OptionName(Get(Get(attr).opts)[i][1]), 1>>]
                ELSE <<>>
        Present(e) == Has(getAttr(op, e[1]))
    IN  par \o opts \o SelectSeq(LegacyOrder, Present)

FirstLegacy(op) ==
    LET present == {k \in 1..Len(ProbedNames) : Has(getAttr(op, ProbedNames[k]))}
    IN  IF present = {} THEN None
        ELSE getAttr(op, ProbedNames[CHOOSE k \in present : \A m \in present : k <= m])

\* the entries of the loop node attached to the i-th operation
AttachedShapes(i) ==
    LET node == mdNodes[InstOf(i).loopMD]
    IN  [k \in 1..(Len(node) - 1) |-> EntryShape(node[k + 1])]

ZeroResultNonVoid(op) ==
    /\ op.kind \in {"Call", "Invoke"} /\ op.numResults = 0
    /\ ~CalleeReturnsVoid(op)

\* C15: a zero-result Call or Invoke whose callee does not return void
\* failed, and its call or invoke instruction is still in the block, with
\* the looked-up operands of the operation; for an Invoke the branch mapping
\* of the operation to that instruction is still in the context.
C15_NoRollback ==
    \A i \in Lowered :
        ZeroResultNonVoid(ops[i])
        => /\ results[i] = "failure"
           /\ InstIndex(i) <= Len(insts)
           /\ Len(insts) = Cardinality({j \in Lowered : EmitsInst(ops[j])})
           /\ InstOf(i).opc = (IF ops[i].kind = "Call" THEN "call" ELSE "invoke")
           /\ InstOf(i).ty # "void"
           /\ InstOf(i).args =
                 [k \in 1..Len(InstOf(i).args) |->
                    valueMapping[ops[i].operands[k + Len(InstOf(i).fnPtr)]]]
           /\ Len(InstOf(i).args) + Len(InstOf(i).fnPtr) = Len(ops[i].operands)
           /\ ops[i].kind = "Invoke"
                => /\ i \in DOMAIN branchMapping
                   /\ branchMapping[i] = InstIndex(i)

\* a failed zero-result Invoke and a failed zero-result Call, one lowered
\* after the other
C15_Witness ==
    \E i, j \in Lowered :
        /\ i # j
        /\ ZeroResultNonVoid(ops[i]) /\ ops[i].kind = "Invoke"
        /\ ZeroResultNonVoid(ops[j]) /\ ops[j].kind = "Call"
        /\ results[i] = "failure" /\ results[j] = "failure"
        /\ i \in DOMAIN branchMapping
        /\ Len(insts) = 2

\* the types of an intrinsic call instantiate llvm.ctpop: one operand of an
\* integer type and a first result of that type
InstantiatesCtpop(op) ==
    /\ Len(op.operands) = 1
    /\ op.operands[1].ty \in {"i1", "i32", "i64"}
    /\ op.numResults # 0
    /\ op.resultType = op.operands[1].ty

\* the intrinsic call is one the claim says fails
RejectedIntrinsicCall(op) ==
    \/ op.intrin \notin {"llvm.ctpop", "llvm.readcyclecounter", "llvm.trap"}
    \/ op.intrin = "llvm.ctpop" /\ ~InstantiatesCtpop(op)

\* one lowering of an intrinsic call
C14_Step ==
    LET op == ops'[Len(ops')]
        res == results'[Len(results')]
        call == insts'[Len(insts')]
    IN  op.kind = "CallIntrinsic" =>
          IF RejectedIntrinsicCall(op)
          THEN /\ res = "failure"
               /\ insts' = insts
               /\ declarations' = declarations
               /\ valueMapping' = valueMapping
          ELSE /\ res = "success"
               /\ Len(insts') = Len(insts) + 1
               /\ SubSeq(insts', 1, Len(insts)) = insts
               /\ call.opc = "call" /\ call.callee = op.intrin
               /\ Get(call.decl) \in declarations'
               /\ valueMapping' =
                     IF op.numResults = 1
                     THEN (ResultOf(op) :> LLVMValue("inst", "", Len(insts'), call.ty))
                          @@ valueMapping
                     ELSE valueMapping
               /\ op.intrin # "llvm.ctpop" => Get(call.decl).tys = <<>>
               /\ op.intrin = "llvm.ctpop"
                     => Get(call.decl).tys = <<op.operands[1].ty>>

====
